---- MODULE Spec2Model ----
(***************************************************************************)
(* MusicTheory Bridge VST3 plug-in: the chord aggregation of               *)
(* MusicTheoryPlugin (process, handleMidiEvents, flushChord) and the       *)
(* dispatch queue of HttpClient (enqueueChord, workerLoop, postChord,      *)
(* postProgression, the destructor).                                       *)
(*                                                                         *)
(* Numbers.  The source computes sample positions and the bar length in    *)
(* double precision.  The model keeps them exact: a musical position is a  *)
(* rational [n, d] of quarter notes, sample rate and tempo are integers,   *)
(* and a cast (int64)/(int) is a truncating division.  The velocity of a   *)
(* note-on is the float in [0, 1] of Steinberg::Vst::NoteOnEvent, kept as  *)
(* the rational [n, d].                                                    *)
(***************************************************************************)
EXTENDS Integers, Sequences, FiniteSets, TLC

(***************************************************************************)
(* Bounds of the model.                                                    *)
(*   MaxNotes    pitches held in currentChordNotes_ at once                *)
(*   MaxEvents   events delivered to one process() call                    *)
(*   MaxQueued   chords built in a run of Spec without batching            *)
(*   MaxBatched  chords built in a run of Spec with batching               *)
(*   MaxRecords  chords built in a run of the real-time thread alone       *)
(***************************************************************************)
MaxNotes == 2
MaxEvents == 1
MaxQueued == 2
MaxBatched == 8
MaxRecords == 1

(***************************************************************************)
(* Program constants.                                                      *)
(***************************************************************************)
barsPerBatch == 4
silenceFlushMs_ == 250

names == <<"C", "C#", "D", "D#", "E", "F", "F#", "G", "G#", "A", "A#", "B">>

Digits == <<"0", "1", "2", "3", "4", "5", "6", "7", "8", "9">>

(***************************************************************************)
(* Arithmetic helpers.                                                     *)
(***************************************************************************)
\* C++ integer division and the cast of a non-integral quotient: toward zero.
Trunc(n, d) ==
    IF n >= 0 THEN n \div d ELSE -((-n) \div d)

Max(a, b) == IF a >= b THEN a ELSE b

RECURSIVE Gcd(_, _)
Gcd(a, b) == IF b = 0 THEN a ELSE Gcd(b, a % b)

\* Trunc(n * a, b) for n >= 0, a > 0, b > 0, with a/b reduced first so that
\* the product stays within TLC's 32-bit integers.
MulDiv(n, a, b) ==
    LET g == Gcd(a, b) IN Trunc(n * (a \div g), b \div g)

RECURSIVE SeqMin(_)
SeqMin(s) ==
    IF Len(s) = 1 THEN s[1]
    ELSE LET m == SeqMin(Tail(s)) IN IF s[1] <= m THEN s[1] ELSE m

\* std::to_string(int)
RECURSIVE to_string(_)
to_string(n) ==
    IF n < 0 THEN "-" \o to_string(-n)
    ELSE IF n < 10 THEN Digits[n + 1]
    ELSE to_string(n \div 10) \o Digits[(n % 10) + 1]

\* std::find + erase: the sequence without the first occurrence of x.
RECURSIVE EraseFirst(_, _)
EraseFirst(s, x) ==
    IF s = <<>> THEN <<>>
    ELSE IF s[1] = x THEN Tail(s)
    ELSE <<s[1]>> \o EraseFirst(Tail(s), x)

(***************************************************************************)
(* MusicTheoryPlugin: the state after construction.  sendBatchProgression_ *)
(* has no writer in the source; it is the mode flag of the instance and is *)
(* passed in.                                                              *)
(***************************************************************************)
PluginInit(batch) ==
    [ sampleRate_           |-> 44100,
      tempoBPM_             |-> 120,
      lastBarSamplePos_     |-> 0,
      timeSigNum_           |-> 4,
      timeSigDen_           |-> 4,
      currentChordNotes_    |-> <<>>,
      lastVelocity_         |-> 90,
      noteOnSamplePos_      |-> <<>>,
      lastActiveNoteSample_ |-> 0,
      sendBatchProgression_ |-> batch,
      progressionBuffer_    |-> <<>> ]

(***************************************************************************)
(* flushChord and its parts.                                               *)
(***************************************************************************)
\* The octave without the "- 1".
NoteName_NoOffset(midi) ==
    LET pc  == midi % 12
        oct == Trunc(midi, 12)
    IN  names[pc + 1] \o to_string(oct)

\* names[pc] + std::to_string(oct)
NoteName(midi) ==
    LET pc  == midi % 12
        oct == Trunc(midi, 12) - 1
    IN  names[pc + 1] \o to_string(oct)

\* The names in the reverse of the order held.
NoteNames_Reversed(notes) ==
    [i \in 1..Len(notes) |-> NoteName(notes[Len(notes) + 1 - i])]

NoteNames(notes) ==
    [i \in 1..Len(notes) |-> NoteName(notes[i])]

\* (int)std::clamp(ms, 50.0, 4000.0) with ms = span * 1000.0 / sampleRate_
DurationMs_NoClamp(p) ==
    IF p.noteOnSamplePos_ # <<>>
    THEN LET earliest == SeqMin(p.noteOnSamplePos_)
             span     == p.lastBarSamplePos_ - earliest
         IN  Trunc(span * 1000, p.sampleRate_)
    ELSE 1000

DurationMs(p) ==
    IF p.noteOnSamplePos_ # <<>>
    THEN LET nowSamples == p.lastBarSamplePos_
             earliest   == SeqMin(p.noteOnSamplePos_)
             span       == Max(0, nowSamples - earliest)
         IN  IF span * 1000 < 50 * p.sampleRate_ THEN 50
             ELSE IF span * 1000 > 4000 * p.sampleRate_ THEN 4000
             ELSE Trunc(span * 1000, p.sampleRate_)
    ELSE 1000

\* if (!currentChordNotes_.empty())
FlushGuard_Always(p) == TRUE

FlushGuard(p) == p.currentChordNotes_ # <<>>

\* if (progressionBuffer_.size() >= barsPerBatch)
BatchFull_Late(buf) == Len(buf) > barsPerBatch

BatchFull(buf) == Len(buf) >= barsPerBatch

\* The calls an operation makes on the HttpClient, in order.
EnqueueCall(task) == [op |-> "enqueueChord", chords |-> <<task>>, bpm |-> 0, velocity |-> 0]

ProgressionCall(chords, bpm, velocity) ==
    [op |-> "postProgression", chords |-> chords, bpm |-> bpm, velocity |-> velocity]

\* The batching branch of flushChord also enqueues the chord.
Dispatch_BothPaths(p, task) ==
    IF p.sendBatchProgression_
    THEN LET buf == Append(p.progressionBuffer_, task)
         IN  IF BatchFull(buf)
             THEN [p     |-> [p EXCEPT !.progressionBuffer_ = <<>>],
                   calls |-> <<ProgressionCall(buf, p.tempoBPM_, p.lastVelocity_),
                               EnqueueCall(task)>>]
             ELSE [p     |-> [p EXCEPT !.progressionBuffer_ = buf],
                   calls |-> <<EnqueueCall(task)>>]
    ELSE [p |-> p, calls |-> <<EnqueueCall(task)>>]

\* if (sendBatchProgression_) { push_back; if full: postProgression; clear }
\* else enqueueChord(task)
Dispatch(p, task) ==
    IF p.sendBatchProgression_
    THEN LET buf == Append(p.progressionBuffer_, task)
         IN  IF BatchFull(buf)
             THEN [p     |-> [p EXCEPT !.progressionBuffer_ = <<>>],
                   calls |-> <<ProgressionCall(buf, p.tempoBPM_, p.lastVelocity_)>>]
             ELSE [p     |-> [p EXCEPT !.progressionBuffer_ = buf],
                   calls |-> <<>>]
    ELSE [p |-> p, calls |-> <<EnqueueCall(task)>>]

flushChord(p) ==
    IF FlushGuard(p)
    THEN LET task == [ notes      |-> NoteNames(p.currentChordNotes_),
                       velocity   |-> p.lastVelocity_,
                       durationMs |-> DurationMs(p) ]
             d    == Dispatch(p, task)
         IN  [ p     |-> [d.p EXCEPT !.currentChordNotes_ = <<>>,
                                     !.noteOnSamplePos_   = <<>>],
               calls |-> d.calls,
               tasks |-> <<task>> ]
    ELSE [p |-> p, calls |-> <<>>, tasks |-> <<>>]

\* The comparison as "greater than".
isBarBoundary_Strict(p, currentSamplePos, samplesPerBar) ==
    (currentSamplePos - p.lastBarSamplePos_) * samplesPerBar.d > samplesPerBar.n

\* currentSamplePos - lastBarSamplePos_ >= samplesPerBar, samplesPerBar = n/d
isBarBoundary(p, currentSamplePos, samplesPerBar) ==
    (currentSamplePos - p.lastBarSamplePos_) * samplesPerBar.d >= samplesPerBar.n

(***************************************************************************)
(* handleMidiEvents.                                                       *)
(***************************************************************************)
\* (int64)(projectTimeMusic * (sampleRate_ * (60.0/tempoBPM_))), 0 if invalid
SamplePos(p, ctx) ==
    IF ctx.musicValid
    THEN MulDiv(ctx.projectTimeMusic.n, p.sampleRate_ * 60,
                ctx.projectTimeMusic.d * p.tempoBPM_)
    ELSE 0

\* One iteration of the event loop.  "lastVelocity_ = e.noteOn.velocity"
\* assigns the event's float to an int: the value is truncated.
handleEvent(p, ctx, e) ==
    IF e.type = "kNoteOnEvent"
    THEN LET pos == SamplePos(p, ctx)
         IN  [p EXCEPT !.currentChordNotes_    = Append(@, e.pitch),
                       !.lastVelocity_         = Trunc(e.velocity.n, e.velocity.d),
                       !.noteOnSamplePos_      = Append(@, pos),
                       !.lastActiveNoteSample_ = pos]
    ELSE IF e.type = "kNoteOffEvent"
    THEN LET notes == EraseFirst(p.currentChordNotes_, e.pitch)
             ons   == IF p.noteOnSamplePos_ # <<>> THEN Tail(p.noteOnSamplePos_)
                      ELSE <<>>
         IN  [p EXCEPT !.currentChordNotes_    = notes,
                       !.noteOnSamplePos_      = ons,
                       !.lastActiveNoteSample_ =
                            IF notes = <<>> THEN SamplePos(p, ctx) ELSE @]
    ELSE p

RECURSIVE handleMidiEvents(_, _, _)
handleMidiEvents(p, ctx, events) ==
    IF events = <<>> THEN p
    ELSE handleMidiEvents(handleEvent(p, ctx, events[1]), ctx, Tail(events))

(***************************************************************************)
(* process.                                                                *)
(***************************************************************************)
UpdateClock(p, ctx) ==
    [p EXCEPT !.tempoBPM_   = IF ctx.tempoValid THEN ctx.tempo ELSE @,
              !.timeSigNum_ = IF ctx.timeSigValid THEN ctx.timeSigNumerator ELSE @,
              !.timeSigDen_ = IF ctx.timeSigValid THEN ctx.timeSigDenominator ELSE @,
              !.sampleRate_ = IF ctx.sampleRateValid THEN ctx.sampleRate ELSE @]

\* secondsPerBeat * beatsPerBar * sampleRate_ as the rational n/d
SamplesPerBar(p) ==
    [n |-> 60 * p.timeSigNum_ * 4 * p.sampleRate_,
     d |-> p.tempoBPM_ * p.timeSigDen_]

\* (int64)((double)silenceFlushMs_ * sampleRate_ / 1000.0)
SilenceThreshold(p) == Trunc(silenceFlushMs_ * p.sampleRate_, 1000)

SilenceCondition(p, currentSamples) ==
    /\ p.currentChordNotes_ = <<>>
    /\ p.lastActiveNoteSample_ > 0
    /\ currentSamples - p.lastActiveNoteSample_ >= SilenceThreshold(p)

\* The silence branch without "lastBarSamplePos_ = currentSamples".
SilenceFlush_KeepBar(p, currentSamples) ==
    IF SilenceCondition(p, currentSamples)
    THEN LET f == flushChord(p)
         IN  [ p     |-> [f.p EXCEPT !.lastActiveNoteSample_ = 0],
               calls |-> f.calls,
               tasks |-> f.tasks,
               ran   |-> TRUE ]
    ELSE [p |-> p, calls |-> <<>>, tasks |-> <<>>, ran |-> FALSE]

\* The silence branch without "lastActiveNoteSample_ = 0".
SilenceFlush_KeepMarker(p, currentSamples) ==
    IF SilenceCondition(p, currentSamples)
    THEN LET f == flushChord([p EXCEPT !.lastBarSamplePos_ = currentSamples])
         IN  [p |-> f.p, calls |-> f.calls, tasks |-> f.tasks, ran |-> TRUE]
    ELSE [p |-> p, calls |-> <<>>, tasks |-> <<>>, ran |-> FALSE]

SilenceFlush(p, currentSamples) ==
    IF SilenceCondition(p, currentSamples)
    THEN LET f == flushChord([p EXCEPT !.lastBarSamplePos_ = currentSamples])
         IN  [ p     |-> [f.p EXCEPT !.lastActiveNoteSample_ = 0],
               calls |-> f.calls,
               tasks |-> f.tasks,
               ran   |-> TRUE ]
    ELSE [p |-> p, calls |-> <<>>, tasks |-> <<>>, ran |-> FALSE]

BarFlush(p, currentSamples) ==
    IF isBarBoundary(p, currentSamples, SamplesPerBar(p))
    THEN LET f == flushChord([p EXCEPT !.lastBarSamplePos_ = currentSamples])
         IN  [p |-> f.p, calls |-> f.calls, tasks |-> f.tasks, ran |-> TRUE]
    ELSE [p |-> p, calls |-> <<>>, tasks |-> <<>>, ran |-> FALSE]

\* The whole of process(): the plug-in state it leaves, the HttpClient calls
\* it makes in order, the chord records it built, and which flush branches
\* ran.
process(p, ctx, events) ==
    LET p1 == UpdateClock(p, ctx)
        p2 == handleMidiEvents(p1, ctx, events)
    IN  IF ctx.musicValid
        THEN LET currentSamples == SamplePos(p2, ctx)
                 s == SilenceFlush(p2, currentSamples)
                 b == BarFlush(s.p, currentSamples)
             IN  [ p       |-> b.p,
                   calls   |-> s.calls \o b.calls,
                   tasks   |-> s.tasks \o b.tasks,
                   silence |-> s.ran,
                   bar     |-> b.ran ]
        ELSE [ p |-> p2, calls |-> <<>>, tasks |-> <<>>,
               silence |-> FALSE, bar |-> FALSE ]

(***************************************************************************)
(* The state.                                                              *)
(*   plugin       the MusicTheoryPlugin object (fields as in the header)   *)
(*   rt           the real-time thread: the HttpClient calls the current   *)
(*                process() still has to make, and its place in the first  *)
(*   queue_, running_, lastError_, lastStatus_   HttpClient fields         *)
(*   mtx_         the owner of HttpClient::mtx_: "none", "rt" or "worker"  *)
(*   worker       the worker thread: its place in workerLoop and its task  *)
(*   dtor         the host thread's place in ~HttpClient                   *)
(* Observers, written by no code:                                          *)
(*   cycle        what the last process() did: the branches that ran, how  *)
(*                long the note set had been empty, whether a record was   *)
(*                built with an onset later than the flush position        *)
(*   emptySince   the sample position since which the note set has been    *)
(*                empty, -1 while it holds a note                          *)
(*   scenario     how far the run follows the end-to-end scenario          *)
(*   pushed, sent the tasks pushed on queue_ / handed to postChord         *)
(*   built, nProgressions     the records built / postProgression calls    *)
(*   posted       the progressions sent, each with its result              *)
(*   touched      the threads that accessed lastError_ or lastStatus_      *)
(*   host         what the host did, each field kept by the one            *)
(*                specification that observes it: the transport fields the *)
(*                last process() call tagged valid (SpecFrame), the        *)
(*                silence flushes since the last note event (SpecSilence), *)
(*                the velocity of the last note-on (SpecVelocity), the     *)
(*                positions of the bar-boundary flushes (SpecBar)          *)
(*   hist         what the events so far amount to: the pitches played     *)
(*                since the note set was last empty, while no note-off     *)
(*                came in between                                          *)
(***************************************************************************)
VARIABLES plugin, rt, queue_, running_, lastError_, lastStatus_, mtx_,
          worker, dtor, cycle, emptySince, scenario, pushed, sent,
          built, nProgressions, touched, hist, host, posted

vars == << plugin, rt, queue_, running_, lastError_, lastStatus_, mtx_,
           worker, dtor, cycle, emptySince, scenario, pushed, sent,
           built, nProgressions, touched, hist, host, posted >>

nChords == Len(built)

clientVars == << queue_, running_, lastError_, lastStatus_, mtx_, worker, dtor,
                 pushed, sent, touched >>

pluginObs == << cycle, emptySince, scenario, built, nProgressions, hist, host,
               posted >>

(***************************************************************************)
(* Inputs of a processing cycle: the host's ProcessContext and event list. *)
(* A musical position is in quarter notes; at 44100 Hz and 120 BPM a       *)
(* quarter note is 22050 samples.                                          *)
(***************************************************************************)
\* A note-on of MIDI velocity 0..127, which the host delivers as the float
\* velocity / 127 of NoteOnEvent.
NoteOn(pitch, velocity) ==
    [type |-> "kNoteOnEvent", pitch |-> pitch, velocity |-> [n |-> velocity, d |-> 127]]

NoteOff(pitch) ==
    [type |-> "kNoteOffEvent", pitch |-> pitch, velocity |-> [n |-> 0, d |-> 127]]

ListsOf(events) == UNION { [1..k -> events] : k \in 0..MaxEvents }

NoteEvents(events) ==
    {i \in 1..Len(events) : events[i].type \in {"kNoteOnEvent", "kNoteOffEvent"}}

NoteOns(events) ==
    Cardinality({i \in 1..Len(events) : events[i].type = "kNoteOnEvent"})

\* The transport fields a ProcessContext tags valid.
ValidFields(ctx) ==
    (IF ctx.tempoValid THEN {"tempo"} ELSE {})
    \cup (IF ctx.timeSigValid THEN {"timeSig"} ELSE {})
    \cup (IF ctx.sampleRateValid THEN {"sampleRate"} ELSE {})
    \cup (IF ctx.musicValid THEN {"position"} ELSE {})

\* The inputs of Spec: the transport advances one bar (four quarter notes)
\* per chord and one note is played on each bar, so that every cycle
\* completes a chord; tempo, time signature and sample rate are not reported.
BarContext(bar) ==
    [ tempoValid |-> FALSE, tempo |-> 120,
      timeSigValid |-> FALSE, timeSigNumerator |-> 4, timeSigDenominator |-> 4,
      sampleRateValid |-> FALSE, sampleRate |-> 44100,
      musicValid |-> TRUE, projectTimeMusic |-> [n |-> 4 * bar, d |-> 1] ]

\* A ProcessContext: tempo and sample rate are not reported, the time
\* signature 1/4 is reported under the flags given, and the musical position
\* is one of those given or not valid.
HostContexts(timeSigFlags, positions) ==
    [ tempoValid : {FALSE}, tempo : {120},
      timeSigValid : timeSigFlags, timeSigNumerator : {1}, timeSigDenominator : {4},
      sampleRateValid : {FALSE}, sampleRate : {44100},
      musicValid : {TRUE}, projectTimeMusic : positions ]
    \cup
    [ tempoValid : {FALSE}, tempo : {120},
      timeSigValid : timeSigFlags, timeSigNumerator : {1}, timeSigDenominator : {4},
      sampleRateValid : {FALSE}, sampleRate : {44100},
      musicValid : {FALSE}, projectTimeMusic : {[n |-> 0, d |-> 1]} ]

\* The inputs of SpecPlugin: note-ons and note-offs of two pitches; the
\* samples 0, 100 and 5000, thirteen quarter notes, or no valid position; the
\* clock as constructed (4/4).
Pitches == {60, 64}

\* The inputs of SpecNames: every MIDI pitch.
AllPitches == 0..127

Velocities == {100}

Events ==
    { NoteOn(p, v) : p \in Pitches, v \in Velocities }
    \cup { NoteOff(p) : p \in Pitches }

Positions ==
    { [n |-> 0, d |-> 1], [n |-> 100, d |-> 22050], [n |-> 5000, d |-> 22050],
      [n |-> 13, d |-> 1] }

Contexts == HostContexts({FALSE}, Positions)

\* The inputs of SpecClock: a note-on of one pitch and a note-off of another;
\* one, two or twelve quarter notes in any order (the transport may jump
\* back), or no valid position; the time signature 1/4 reported or not.
ClockEvents == { NoteOn(60, 100), NoteOff(64) }

ClockPositions ==
    { [n |-> 1, d |-> 1], [n |-> 2, d |-> 1], [n |-> 12, d |-> 1] }

ClockContexts == HostContexts(BOOLEAN, ClockPositions)

\* The inputs of SpecSilence: a note-on and a note-off of one pitch; sample
\* 5000, thirteen quarter notes, or no valid position; the clock as
\* constructed.
SilenceEvents == { NoteOn(60, 100), NoteOff(60) }

SilencePositions == { [n |-> 5000, d |-> 22050], [n |-> 13, d |-> 1] }

SilenceContexts == HostContexts({FALSE}, SilencePositions)

\* The inputs of SpecVelocity: note-ons of one pitch at MIDI velocity 0, 100
\* or 127 and its note-off; the positions of SpecSilence.
VelocityEvents == { NoteOn(60, v) : v \in {0, 100, 127} } \cup { NoteOff(60) }

\* The inputs of SpecBar: a note-on and a note-off of one pitch; one, four
\* or eight quarter notes, or no valid position; the time
\* signature 1/4 reported or not (a bar of 22050 or of 88200 samples).
BarPositions == { [n |-> q, d |-> 1] : q \in {1, 4, 8} }

BarContexts == HostContexts(BOOLEAN, BarPositions)

(***************************************************************************)
(* Init: MusicTheoryPlugin() and HttpClient(): running_ = true, the worker *)
(* thread started at the top of workerLoop.                                *)
(***************************************************************************)
NoTask == [notes |-> <<>>, velocity |-> 96, durationMs |-> 2000]

Init ==
    /\ plugin \in {PluginInit(b) : b \in BOOLEAN}
    /\ rt = [calls |-> <<>>, at |-> "call"]
    /\ queue_ = <<>>
    /\ running_ = TRUE
    /\ lastError_ = ""
    /\ lastStatus_ = ""
    /\ mtx_ = "none"
    /\ worker = [pc |-> "while", task |-> NoTask]
    /\ dtor = "alive"
    /\ cycle = [silence |-> FALSE, bar |-> FALSE, both |-> FALSE,
                quiet |-> 0, threshold |-> 0, late |-> FALSE, tasks |-> <<>>,
                played |-> <<>>, pure |-> TRUE]
    /\ emptySince = 0
    /\ scenario = 0
    /\ pushed = <<>>
    /\ sent = <<>>
    /\ built = <<>>
    /\ nProgressions = 0
    /\ touched = {}
    /\ hist = [played |-> <<>>, pure |-> TRUE]
    /\ host = [valid |-> {}, silences |-> 0, at |-> -1,
               velocity |-> [n |-> PluginInit(FALSE).lastVelocity_, d |-> 1],
               pos |-> 0, expected |-> FALSE, due |-> FALSE,
               lastBarAt |-> -1, second |-> FALSE, gapOk |-> TRUE]
    /\ posted = <<>>

(***************************************************************************)
(* Observers of a cycle.                                                   *)
(***************************************************************************)
\* The position since which the note set is empty, after one event.
EmptySinceAfter(es, before, after, pos) ==
    IF after.currentChordNotes_ # <<>> THEN -1
    ELSE IF before.currentChordNotes_ = <<>> THEN es
    ELSE pos

RECURSIVE EmptySinceEvents(_, _, _, _)
EmptySinceEvents(es, p, ctx, events) ==
    IF events = <<>> THEN es
    ELSE LET q == handleEvent(p, ctx, events[1])
         IN  EmptySinceEvents(EmptySinceAfter(es, p, q, SamplePos(p, ctx)),
                              q, ctx, Tail(events))

\* The pitches played since the note set was last empty, after one event; a
\* note-off ends the record keeping until the set is empty again.
HistAfter(h, p, e) ==
    LET base == IF p.currentChordNotes_ = <<>>
                THEN [h EXCEPT !.played = <<>>, !.pure = TRUE]
                ELSE h
    IN  IF e.type = "kNoteOnEvent"
        THEN [base EXCEPT !.played = IF base.pure THEN Append(@, e.pitch) ELSE <<>>]
        ELSE IF e.type = "kNoteOffEvent"
        THEN [base EXCEPT !.played = <<>>, !.pure = FALSE]
        ELSE base

RECURSIVE HistEvents(_, _, _, _)
HistEvents(h, p, ctx, events) ==
    IF events = <<>> THEN h
    ELSE HistEvents(HistAfter(h, p, events[1]),
                    handleEvent(p, ctx, events[1]), ctx, Tail(events))

\* The end-to-end scenario: note-on(60, 100) at sample 0, note-on(64) at
\* sample 100, note-off(60) and note-off(64) at sample 5000, at 44100 Hz and
\* 120 BPM, one event per cycle.
ScenarioStep(k) ==
    CASE k = 1 -> [e |-> NoteOn(60, 100), at |-> 0]
      [] k = 2 -> [e |-> NoteOn(64, 100), at |-> 100]
      [] k = 3 -> [e |-> NoteOff(60), at |-> 5000]
      [] k = 4 -> [e |-> NoteOff(64), at |-> 5000]

ScenarioNext(k, p1, ctx, events) ==
    IF /\ k \in 0..3
       /\ events = <<ScenarioStep(k + 1).e>>
       /\ ctx.musicValid
       /\ p1.sampleRate_ = 44100 /\ p1.tempoBPM_ = 120
       /\ p1.timeSigNum_ = 4 /\ p1.timeSigDen_ = 4
       /\ SamplePos(p1, ctx) = ScenarioStep(k + 1).at
    THEN k + 1
    ELSE -1

(***************************************************************************)
(* The real-time thread.                                                   *)
(***************************************************************************)
RtIdle == rt.calls = <<>>

RtNextCall == [calls |-> Tail(rt.calls), at |-> "call"]

\* One call of process() by the host: everything it does to the plug-in's
\* own state, and the HttpClient calls it makes, which the steps below carry
\* out one by one before the next cycle starts.
ProcessCycle(ctx, events, maxRecords) ==
    /\ RtIdle
    /\ dtor = "alive"
    /\ Len(plugin.currentChordNotes_) + NoteOns(events) <= MaxNotes
    /\ \E p1 \in {UpdateClock(plugin, ctx)} :
       \E p2 \in {handleMidiEvents(p1, ctx, events)} :
       \E r \in {process(plugin, ctx, events)} :
       \E cur \in {SamplePos(p2, ctx)} :
       \E es2 \in {EmptySinceEvents(emptySince, p1, ctx, events)} :
       \E h2 \in {HistEvents(hist, p1, ctx, events)} :
           /\ nChords + Len(r.tasks) <= maxRecords
           /\ plugin' = r.p
           /\ rt' = [calls |-> r.calls, at |-> "call"]
           /\ cycle' = [ silence   |-> r.silence,
                         bar       |-> r.bar,
                         both      |-> /\ ctx.musicValid
                                       /\ SilenceCondition(p2, cur)
                                       /\ isBarBoundary(p2, cur, SamplesPerBar(p2)),
                         quiet     |-> IF r.silence THEN cur - es2 ELSE 0,
                         threshold |-> IF r.silence THEN SilenceThreshold(p2) ELSE 0,
                         late      |-> /\ r.tasks # <<>>
                                       /\ p2.noteOnSamplePos_ # <<>>
                                       /\ SeqMin(p2.noteOnSamplePos_) > cur,
                         tasks     |-> r.tasks,
                         played    |-> IF r.tasks # <<>> THEN h2.played ELSE <<>>,
                         pure      |-> IF r.tasks # <<>> THEN h2.pure ELSE TRUE ]
           /\ hist' = h2
           /\ emptySince' = IF r.p.currentChordNotes_ # <<>> THEN -1
                            ELSE IF p2.currentChordNotes_ # <<>> THEN cur
                            ELSE es2
           /\ scenario' = ScenarioNext(scenario, p1, ctx, events)
           /\ built' = built \o r.tasks
    /\ UNCHANGED << clientVars, nProgressions, posted >>

\* process() in Spec
Process ==
    \E pitch \in Pitches :
        /\ ProcessCycle(BarContext(nChords + 1), <<NoteOn(pitch, 100)>>,
                        IF plugin.sendBatchProgression_ THEN MaxBatched ELSE MaxQueued)
        /\ UNCHANGED host

\* process() in SpecPlugin
ProcessPlugin ==
    \E ctx \in Contexts, events \in ListsOf(Events) :
        /\ ProcessCycle(ctx, events, MaxRecords)
        /\ UNCHANGED host

\* process() in SpecClock
ProcessClock ==
    \E ctx \in ClockContexts, events \in ListsOf(ClockEvents) :
        /\ ProcessCycle(ctx, events, MaxRecords)
        /\ UNCHANGED host

\* process() in SpecNames: one note of any MIDI pitch per bar
ProcessNames ==
    \E pitch \in AllPitches :
        /\ ProcessCycle(BarContext(nChords + 1), <<NoteOn(pitch, 100)>>, MaxRecords)
        /\ UNCHANGED host

\* process() in SpecFrame
ProcessFrame ==
    \E ctx \in ClockContexts, events \in ListsOf(ClockEvents) :
        /\ ProcessCycle(ctx, events, MaxRecords)
        /\ host' = [host EXCEPT !.valid = ValidFields(ctx)]

\* process() in SpecSilence; host counts the cycles
\* whose silence branch ran since the last cycle that carried a note event
\* (that cycle included, the branch running after its events; 2 stands for
\* two or more) and keeps the sample position of the call (-1: not valid).
ProcessSilence ==
    \E ctx \in SilenceContexts, events \in ListsOf(SilenceEvents) :
        /\ ProcessCycle(ctx, events, MaxRecords)
        /\ host' = [host EXCEPT
                !.silences = IF cycle'.silence
                             THEN (IF NoteEvents(events) # {} \/ @ = 0 THEN 1 ELSE 2)
                             ELSE (IF NoteEvents(events) # {} THEN 0 ELSE @),
                !.at = IF ctx.musicValid
                       THEN SamplePos(UpdateClock(plugin, ctx), ctx) ELSE -1]

\* The velocity of the last note-on among the events, v if there is none.
RECURSIVE LastNoteOnVelocity(_, _)
LastNoteOnVelocity(v, events) ==
    IF events = <<>> THEN v
    ELSE LastNoteOnVelocity(IF events[1].type = "kNoteOnEvent"
                            THEN events[1].velocity ELSE v, Tail(events))

\* process() in SpecVelocity; host keeps the velocity of the most recent
\* note-on, as the event carried it (the constructor's default before the
\* first).
ProcessVelocity ==
    \E ctx \in SilenceContexts, events \in ListsOf(VelocityEvents) :
        /\ ProcessCycle(ctx, events, MaxRecords)
        /\ host' = [host EXCEPT !.velocity = LastNoteOnVelocity(@, events)]

\* process() in SpecBar: the transport never moves back.  host keeps, of the
\* call: pos, its sample position; expected, whether the position was valid,
\* the silence branch did not run and the position was a bar or more past
\* the last flush; due, whether the position was valid and a bar or more
\* past the last flush with notes held; and of the bar-boundary flushes:
\* lastBarAt, the position of the last one (-1: none yet); second, whether
\* the call ran one that was not the first; gapOk, whether it was then a bar
\* or more past the one before.
ProcessBar ==
    \E ctx \in BarContexts, events \in ListsOf(SilenceEvents) :
    \E p1 \in {UpdateClock(plugin, ctx)} :
    \E cur \in {IF ctx.musicValid THEN SamplePos(p1, ctx) ELSE host.pos} :
    \E spb \in {SamplesPerBar(p1)} :
    \E past \in {ctx.musicValid
                  /\ (cur - plugin.lastBarSamplePos_) * spb.d >= spb.n} :
    \E held \in {handleMidiEvents(p1, ctx, events).currentChordNotes_ # <<>>} :
        /\ cur >= host.pos
        /\ ProcessCycle(ctx, events, MaxRecords)
        /\ host' = [host EXCEPT
                !.pos       = cur,
                !.expected  = past /\ ~cycle'.silence,
                !.due       = past /\ held,
                !.lastBarAt = IF cycle'.bar THEN cur ELSE @,
                !.second    = cycle'.bar /\ host.lastBarAt # -1,
                !.gapOk     = IF cycle'.bar /\ host.lastBarAt # -1
                              THEN (cur - host.lastBarAt) * spb.d >= spb.n
                              ELSE @]

\* enqueueChord: std::lock_guard<std::mutex> lk(mtx_)
EnqueueLock ==
    /\ ~RtIdle
    /\ Head(rt.calls).op = "enqueueChord"
    /\ rt.at = "call"
    /\ mtx_ = "none"
    /\ mtx_' = "rt"
    /\ rt' = [rt EXCEPT !.at = "push"]
    /\ UNCHANGED << plugin, queue_, running_, lastError_, lastStatus_, worker,
                    dtor, pushed, sent, touched, pluginObs >>

\* enqueueChord: queue_.push(task), and the lock_guard's scope ends
EnqueuePush ==
    /\ ~RtIdle
    /\ rt.at = "push"
    /\ queue_' = Append(queue_, Head(rt.calls).chords[1])
    /\ pushed' = Append(pushed, Head(rt.calls).chords[1])
    /\ mtx_' = "none"
    /\ rt' = [rt EXCEPT !.at = "notify"]
    /\ UNCHANGED << plugin, running_, lastError_, lastStatus_, worker, dtor,
                    sent, touched, pluginObs >>

\* A notify_one that wakes nobody.
EnqueueNotify_NoWake ==
    /\ ~RtIdle
    /\ rt.at = "notify"
    /\ rt' = RtNextCall
    /\ UNCHANGED << plugin, queue_, running_, lastError_, lastStatus_, mtx_,
                    worker, dtor, pushed, sent, touched, pluginObs >>

\* enqueueChord: cv_.notify_one(), and the call returns
EnqueueNotify ==
    /\ ~RtIdle
    /\ rt.at = "notify"
    /\ worker' = IF worker.pc = "waiting" THEN [worker EXCEPT !.pc = "relock"]
                 ELSE worker
    /\ rt' = RtNextCall
    /\ UNCHANGED << plugin, queue_, running_, lastError_, lastStatus_, mtx_,
                    dtor, pushed, sent, touched, pluginObs >>

(***************************************************************************)
(* postChord / postProgression: the outcomes of a send and what each       *)
(* writes.  "transport error" stands for curl_easy_strerror(res).          *)
(***************************************************************************)
SendResults == {"init failed", "transport failed", "HTTP 200", "HTTP 500"}

SendOk(res) == res = "HTTP 200"

ErrorAfter(res) ==
    CASE res = "init failed"      -> "curl init failed"
      [] res = "transport failed" -> "transport error"
      [] OTHER                    -> lastError_

StatusAfter(res) ==
    IF res \in {"HTTP 200", "HTTP 500"} THEN res ELSE lastStatus_

\* postProgression is entered on the calling (real-time) thread
PostProgressionCall ==
    /\ ~RtIdle
    /\ Head(rt.calls).op = "postProgression"
    /\ rt.at = "call"
    /\ rt' = [rt EXCEPT !.at = "curl"]
    /\ nProgressions' = nProgressions + 1
    /\ UNCHANGED << plugin, clientVars, cycle, emptySince, scenario, built, hist,
                    host, posted >>

\* A progression whose send failed goes back into the buffer.
PostProgressionReturn_KeepFailed(res) ==
    /\ ~RtIdle
    /\ rt.at = "curl"
    /\ lastError_' = ErrorAfter(res)
    /\ lastStatus_' = StatusAfter(res)
    /\ touched' = touched \cup {"rt"}
    /\ rt' = RtNextCall
    /\ posted' = Append(posted, [chords |-> Head(rt.calls).chords, res |-> res])
    /\ plugin' = IF SendOk(res) THEN plugin
                 ELSE [plugin EXCEPT !.progressionBuffer_ = Head(rt.calls).chords]
    /\ UNCHANGED << queue_, running_, mtx_, worker, dtor, pushed, sent,
                    cycle, emptySince, scenario, built, nProgressions, hist, host >>

\* postProgression returns; flushChord reads getLastError() when it failed,
\* then clears the buffer, the note set and the onsets whatever the result
PostProgressionReturn(res) ==
    /\ ~RtIdle
    /\ rt.at = "curl"
    /\ lastError_' = ErrorAfter(res)
    /\ lastStatus_' = StatusAfter(res)
    /\ touched' = touched \cup {"rt"}
    /\ rt' = RtNextCall
    /\ posted' = Append(posted, [chords |-> Head(rt.calls).chords, res |-> res])
    /\ UNCHANGED << plugin, queue_, running_, mtx_, worker, dtor, pushed, sent,
                    cycle, emptySince, scenario, built, nProgressions, hist, host >>

PostProgression == \E res \in SendResults : PostProgressionReturn(res)

(***************************************************************************)
(* The worker thread: workerLoop.                                          *)
(***************************************************************************)
\* while (running_)
WorkerWhile ==
    /\ worker.pc = "while"
    /\ worker' = [worker EXCEPT !.pc = IF running_ THEN "lock" ELSE "done"]
    /\ UNCHANGED << plugin, rt, queue_, running_, lastError_, lastStatus_, mtx_,
                    dtor, pushed, sent, touched, pluginObs >>

\* std::unique_lock<std::mutex> lk(mtx_), and the lock taken again on the way
\* out of a wait
WorkerLock ==
    /\ worker.pc \in {"lock", "relock"}
    /\ mtx_ = "none"
    /\ mtx_' = "worker"
    /\ worker' = [worker EXCEPT !.pc = "predicate"]
    /\ UNCHANGED << plugin, rt, queue_, running_, lastError_, lastStatus_,
                    dtor, pushed, sent, touched, pluginObs >>

\* cv_.wait(lk, pred) evaluates pred: !running_ || !queue_.empty()
WorkerPredicate ==
    /\ worker.pc = "predicate"
    /\ worker' = [worker EXCEPT !.pc = IF ~running_ \/ queue_ # <<>>
                                       THEN "check" ELSE "block"]
    /\ UNCHANGED << plugin, rt, queue_, running_, lastError_, lastStatus_, mtx_,
                    dtor, pushed, sent, touched, pluginObs >>

\* cv_.wait(lk): the mutex is released and the thread blocks, atomically
WorkerBlock ==
    /\ worker.pc = "block"
    /\ mtx_' = "none"
    /\ worker' = [worker EXCEPT !.pc = "waiting"]
    /\ UNCHANGED << plugin, rt, queue_, running_, lastError_, lastStatus_,
                    dtor, pushed, sent, touched, pluginObs >>

\* A condition variable may wake a waiter that nobody notified.
WorkerSpuriousWake ==
    /\ worker.pc = "waiting"
    /\ worker' = [worker EXCEPT !.pc = "relock"]
    /\ UNCHANGED << plugin, rt, queue_, running_, lastError_, lastStatus_, mtx_,
                    dtor, pushed, sent, touched, pluginObs >>

\* if (!running_) break;   (the unique_lock is released on the way out)
WorkerCheck ==
    /\ worker.pc = "check"
    /\ IF ~running_
       THEN /\ worker' = [worker EXCEPT !.pc = "done"]
            /\ mtx_' = "none"
       ELSE /\ worker' = [worker EXCEPT !.pc = "pop"]
            /\ mtx_' = mtx_
    /\ UNCHANGED << plugin, rt, queue_, running_, lastError_, lastStatus_,
                    dtor, pushed, sent, touched, pluginObs >>

\* The lock's scope reaches past postChord(task).
WorkerPop_HoldLock ==
    /\ worker.pc = "pop"
    /\ worker' = [pc |-> "postChord", task |-> Head(queue_)]
    /\ queue_' = Tail(queue_)
    /\ sent' = Append(sent, Head(queue_))
    /\ UNCHANGED << plugin, rt, running_, lastError_, lastStatus_, mtx_, dtor,
                    pushed, touched, pluginObs >>

\* task = queue_.front(); queue_.pop(); } postChord(task) is entered
WorkerPop ==
    /\ worker.pc = "pop"
    /\ worker' = [pc |-> "postChord", task |-> Head(queue_)]
    /\ queue_' = Tail(queue_)
    /\ mtx_' = "none"
    /\ sent' = Append(sent, Head(queue_))
    /\ UNCHANGED << plugin, rt, running_, lastError_, lastStatus_, dtor,
                    pushed, touched, pluginObs >>

\* A failed send puts the task back on the queue.
WorkerPostChordReturn_Retry(res) ==
    /\ worker.pc = "postChord"
    /\ lastError_' = ErrorAfter(res)
    /\ lastStatus_' = StatusAfter(res)
    /\ touched' = touched \cup {"worker"}
    /\ worker' = [worker EXCEPT !.pc = "while"]
    /\ queue_' = IF SendOk(res) THEN queue_ ELSE Append(queue_, worker.task)
    /\ UNCHANGED << plugin, rt, running_, mtx_, dtor, pushed, sent, pluginObs >>

\* postChord(task) returns; its result is dropped
WorkerPostChordReturn(res) ==
    /\ worker.pc = "postChord"
    /\ lastError_' = ErrorAfter(res)
    /\ lastStatus_' = StatusAfter(res)
    /\ touched' = touched \cup {"worker"}
    /\ worker' = [worker EXCEPT !.pc = "while"]
    /\ UNCHANGED << plugin, rt, queue_, running_, mtx_, dtor, pushed, sent,
                    pluginObs >>

WorkerPostChord == \E res \in SendResults : WorkerPostChordReturn(res)

(***************************************************************************)
(* ~HttpClient, run by the host thread from terminate(), which the host    *)
(* calls once processing has stopped.                                      *)
(***************************************************************************)
\* running_ = false
DtorStop ==
    /\ dtor = "alive"
    /\ RtIdle
    /\ running_' = FALSE
    /\ dtor' = "notify"
    /\ UNCHANGED << plugin, rt, queue_, lastError_, lastStatus_, mtx_, worker,
                    pushed, sent, touched, pluginObs >>

\* cv_.notify_all()
DtorNotify ==
    /\ dtor = "notify"
    /\ worker' = IF worker.pc = "waiting" THEN [worker EXCEPT !.pc = "relock"]
                 ELSE worker
    /\ dtor' = "join"
    /\ UNCHANGED << plugin, rt, queue_, running_, lastError_, lastStatus_, mtx_,
                    pushed, sent, touched, pluginObs >>

\* worker_.join() returns once workerLoop has returned
DtorJoin ==
    /\ dtor = "join"
    /\ worker.pc = "done"
    /\ dtor' = "joined"
    /\ UNCHANGED << plugin, rt, queue_, running_, lastError_, lastStatus_, mtx_,
                    worker, pushed, sent, touched, pluginObs >>

(***************************************************************************)
(* Spec: the plug-in with its HttpClient, every thread, in either mode.    *)
(***************************************************************************)
Next ==
    \/ Process
    \/ EnqueueLock
    \/ EnqueuePush
    \/ EnqueueNotify
    \/ PostProgressionCall
    \/ PostProgression
    \/ WorkerWhile
    \/ WorkerLock
    \/ WorkerPredicate
    \/ WorkerBlock
    \/ WorkerSpuriousWake
    \/ WorkerCheck
    \/ WorkerPop
    \/ WorkerPostChord
    \/ DtorStop
    \/ DtorNotify
    \/ DtorJoin

Spec == Init /\ [][Next]_vars

(***************************************************************************)
(* SpecPlugin: the real-time thread alone, as constructed (batching off),  *)
(* over the wider inputs.  The plug-in's fields are written by the         *)
(* real-time thread only, so what process() computes does not depend on    *)
(* how far the worker has got; here the worker is not scheduled.           *)
(***************************************************************************)
InitPlugin == Init /\ ~plugin.sendBatchProgression_

NextPlugin ==
    \/ ProcessPlugin
    \/ EnqueueLock
    \/ EnqueuePush
    \/ EnqueueNotify

SpecPlugin == InitPlugin /\ [][NextPlugin]_vars

(***************************************************************************)
(* SpecClock: as SpecPlugin, with a time signature that changes while      *)
(* notes are held and a transport that jumps.                              *)
(***************************************************************************)
NextClock ==
    \/ ProcessClock
    \/ EnqueueLock
    \/ EnqueuePush
    \/ EnqueueNotify

SpecClock == InitPlugin /\ [][NextClock]_vars

(***************************************************************************)
(* SpecNames: the real-time thread alone, one note of any MIDI pitch per   *)
(* bar, each flushed at the bar boundary.                                  *)
(***************************************************************************)
NextNames ==
    \/ ProcessNames
    \/ EnqueueLock
    \/ EnqueuePush
    \/ EnqueueNotify

SpecNames == InitPlugin /\ [][NextNames]_vars

(***************************************************************************)
(* SpecFrame: as SpecClock, with the validity flags of each call observed. *)
(***************************************************************************)
NextFrame ==
    \/ ProcessFrame
    \/ EnqueueLock
    \/ EnqueuePush
    \/ EnqueueNotify

SpecFrame == InitPlugin /\ [][NextFrame]_vars

(***************************************************************************)
(* SpecSilence: the real-time thread alone, one pitch played and released, *)
(* with the cycles whose silence branch ran counted.                       *)
(***************************************************************************)
NextSilence ==
    \/ ProcessSilence
    \/ EnqueueLock
    \/ EnqueuePush
    \/ EnqueueNotify

SpecSilence == InitPlugin /\ [][NextSilence]_vars

(***************************************************************************)
(* SpecVelocity: the real-time thread alone, one pitch played at several   *)
(* velocities, with the velocity of the last note-on observed.             *)
(***************************************************************************)
NextVelocity ==
    \/ ProcessVelocity
    \/ EnqueueLock
    \/ EnqueuePush
    \/ EnqueueNotify

SpecVelocity == InitPlugin /\ [][NextVelocity]_vars

(***************************************************************************)
(* SpecBar: the real-time thread alone under a transport that only moves   *)
(* forward, with the bar-boundary flushes observed.                        *)
(***************************************************************************)
NextBar ==
    \/ ProcessBar
    \/ EnqueueLock
    \/ EnqueuePush
    \/ EnqueueNotify

SpecBar == InitPlugin /\ [][NextBar]_vars

(***************************************************************************)
(* FairSpec: Spec with the scheduling the platform guarantees.  A thread   *)
(* that can take a step eventually takes it, a send returns (the transfer  *)
(* has a timeout), and a waiter that was notified wakes up.  A wake-up     *)
(* nobody sent (WorkerSpuriousWake) is allowed but never guaranteed.       *)
(***************************************************************************)
WorkerStep ==
    \/ WorkerWhile
    \/ WorkerLock
    \/ WorkerPredicate
    \/ WorkerBlock
    \/ WorkerCheck
    \/ WorkerPop
    \/ WorkerPostChord

DtorStep == DtorNotify \/ DtorJoin

\* The calls a process() in progress still has to make: straight-line code
\* of the real-time thread.
RtStep ==
    \/ EnqueueLock
    \/ EnqueuePush
    \/ EnqueueNotify
    \/ PostProgressionCall
    \/ PostProgression

FairSpec ==
    Spec /\ WF_vars(WorkerStep) /\ WF_vars(DtorStep) /\ WF_vars(RtStep)

(***************************************************************************)
(* Properties.                                                             *)
(***************************************************************************)
RecordsInFlight ==
    { queue_[i] : i \in 1..Len(queue_) }
    \cup { built[i] : i \in 1..Len(built) }
    \cup { cycle.tasks[i] : i \in 1..Len(cycle.tasks) }
    \cup UNION { { rt.calls[i].chords[j] : j \in 1..Len(rt.calls[i].chords) } :
                 i \in 1..Len(rt.calls) }

PendingProgressions ==
    { i \in 1..Len(rt.calls) : rt.calls[i].op = "postProgression" }

\* C1: once ~HttpClient has begun (running_ = false stored), its join
\* eventually returns, in every interleaving with the worker loop.
C1_DestructorTerminates == (dtor = "notify") ~> (dtor = "joined")

\* C2: while the worker is inside postChord it does not hold mtx_, and every
\* step of an enqueueChord call the real-time thread is making can be taken:
\* the lock is free to take, the push and the notify need nothing from the
\* worker.
C2_EnqueueNeverWaitsOnSend ==
    worker.pc = "postChord" =>
        /\ mtx_ # "worker"
        /\ (~RtIdle /\ Head(rt.calls).op = "enqueueChord" /\ rt.at = "call")
               => ENABLED EnqueueLock
        /\ rt.at = "push" => ENABLED EnqueuePush
        /\ rt.at = "notify" => ENABLED EnqueueNotify

\* C2 witness: the real-time thread has pushed a second task and is about to
\* return from enqueueChord while the worker is inside postChord.
C2_Witness ==
    /\ worker.pc = "postChord"
    /\ rt.at = "notify"
    /\ Len(pushed) = 2

\* C3: queue_ is read and written only by the thread that holds mtx_; the
\* real-time thread and the worker are never inside postProgression and
\* postChord at the same time; and lastError_ / lastStatus_ are accessed by at
\* most one of the two threads in the life of an HttpClient.
C3_OnlyQueueShared ==
    /\ worker.pc \in {"predicate", "block", "check", "pop"} => mtx_ = "worker"
    /\ rt.at = "push" => mtx_ = "rt"
    /\ ~(worker.pc = "postChord" /\ rt.at = "curl")
    /\ Cardinality(touched) <= 1

\* C3 witness: the worker has written lastError_ / lastStatus_ and the
\* real-time thread is appending to queue_ under the mutex.
C3_Witness ==
    /\ touched = {"worker"}
    /\ rt.at = "push"
    /\ mtx_ = "rt"

\* C4: the tasks handed to postChord followed by the tasks still queued are
\* exactly the tasks pushed, in order (each task is sent once, none comes
\* back); the task in postChord is the one dequeued last; and the worker
\* leaves its loop only after shutdown, never because of a send's result.
C4_SentExactlyOnce ==
    /\ sent \o queue_ = pushed
    /\ worker.pc = "postChord" =>
           /\ sent # <<>>
           /\ worker.task = sent[Len(sent)]
    /\ worker.pc = "done" => ~running_

\* C4 witness: a send failed with a transport error and the worker is
\* sending the task queued after it.
C4_Witness ==
    /\ worker.pc = "postChord"
    /\ Len(sent) = 2
    /\ lastError_ = "transport error"
    /\ running_

\* C5: no cycle runs both flush branches and no cycle builds two records;
\* when both conditions hold at the boundary check, the silence branch runs
\* and the bar branch does not.
C5_OneFlushPerCycle ==
    /\ ~(cycle.silence /\ cycle.bar)
    /\ Len(cycle.tasks) <= 1
    /\ cycle.both => (cycle.silence /\ ~cycle.bar)

\* C5 witness: a cycle in which both conditions held at the boundary check.
C5_Witness == cycle.both /\ cycle.silence

\* C6: when the silence branch runs, the note set has been empty for at
\* least the threshold (250 ms of samples).
C6_SilenceOnlyAfterThreshold ==
    cycle.silence => cycle.quiet >= cycle.threshold

\* C7: after the scenario's four events (note-on 60 at sample 0, note-on 64
\* at sample 100, both note-offs at sample 5000), a flush at sample 5000
\* builds the record ["C4", "E4"], velocity 100, 113 ms.
C7_ReleasedNotesReported ==
    scenario = 4 =>
        flushChord([plugin EXCEPT !.lastBarSamplePos_ = 5000]).tasks =
            << [notes |-> <<"C4", "E4">>, velocity |-> 100, durationMs |-> 113] >>

\* C8: with batching on, the buffer holds the chords built since the last
\* multiple of four and so fewer than four; one progression has been
\* dispatched per four chords built, none before the fourth; each dispatch
\* carries the last four chords built, in order.  Without batching no
\* progression is ever dispatched.
C8_BatchOfFour ==
    IF plugin.sendBatchProgression_
    THEN /\ Len(plugin.progressionBuffer_) < barsPerBatch
         /\ plugin.progressionBuffer_ =
                SubSeq(built, barsPerBatch * (nChords \div barsPerBatch) + 1, nChords)
         /\ nProgressions + Cardinality(PendingProgressions \cap
                (IF rt.at = "call" THEN {1} ELSE {})) = nChords \div barsPerBatch
         /\ Cardinality(PendingProgressions) <= 1
         /\ \A i \in PendingProgressions :
                /\ nChords % barsPerBatch = 0
                /\ rt.calls[i].chords = SubSeq(built, nChords - barsPerBatch + 1, nChords)
    ELSE nProgressions = 0 /\ PendingProgressions = {}

\* C8 witness: five chords were built with batching on; the fourth was sent
\* in one progression and the fifth is alone in the buffer.
C8_Witness ==
    /\ plugin.sendBatchProgression_
    /\ nChords = 5
    /\ nProgressions = 1
    /\ Len(plugin.progressionBuffer_) = 1

\* C9: flushChord on a plug-in whose note set is empty changes no field,
\* makes no HttpClient call and builds no record; a cycle whose flush branch
\* ran on the empty set built no record.
C9_EmptyFlushNoOp ==
    /\ plugin.currentChordNotes_ = <<>> =>
           flushChord(plugin) = [p |-> plugin, calls |-> <<>>, tasks |-> <<>>]
    /\ cycle.silence => cycle.tasks = <<>>

\* C9 witness: the bar branch ran on an empty note set.
C9_Witness ==
    /\ cycle.bar
    /\ cycle.tasks = <<>>
    /\ plugin.currentChordNotes_ = <<>>
    /\ queue_ = <<>>

\* C10: every record built has 50 <= durationMs <= 4000.
C10_DurationClamped ==
    \A t \in RecordsInFlight : t.durationMs >= 50 /\ t.durationMs <= 4000

\* C10 witness: a record was built while its earliest onset was later than
\* the flush position.
C10_Witness ==
    /\ cycle.late
    /\ Len(cycle.tasks) = 1
    /\ cycle.tasks[1].durationMs = 50

\* C11: a record built after note-ons only (no note-off since the note set
\* was last empty) names the pitches played, one entry per note-on, in the
\* order played.
C11_NotesInOrderPlayed ==
    (cycle.tasks # <<>> /\ cycle.pure) =>
        /\ Len(cycle.tasks[1].notes) = Len(cycle.played)
        /\ \A i \in 1..Len(cycle.played) :
               cycle.tasks[1].notes[i] = NoteName(cycle.played[i])

\* C11 witness: E4 then C4 were played, none released, and the flush built
\* the record in that order.
C11_Witness ==
    /\ cycle.tasks # <<>>
    /\ cycle.pure
    /\ cycle.played = <<64, 60>>
    /\ cycle.tasks[1].notes = <<"E4", "C4">>

\* C12: no pitch is in the active note set twice.
C12_PitchAtMostOnce ==
    \A i, j \in 1..Len(plugin.currentChordNotes_) :
        i # j => plugin.currentChordNotes_[i] # plugin.currentChordNotes_[j]

\* C13: a cycle leaves tempo, time signature and sample rate as they were
\* unless the field is tagged valid, and a cycle whose musical position is
\* not valid runs no flush and leaves lastBarSamplePos_ and
\* lastActiveNoteSample_ as they were.
C13_OnlyValidFieldsChange ==
    [][ /\ "tempo" \notin host'.valid => plugin'.tempoBPM_ = plugin.tempoBPM_
        /\ "timeSig" \notin host'.valid =>
               /\ plugin'.timeSigNum_ = plugin.timeSigNum_
               /\ plugin'.timeSigDen_ = plugin.timeSigDen_
        /\ "sampleRate" \notin host'.valid =>
               plugin'.sampleRate_ = plugin.sampleRate_
        /\ "position" \notin host'.valid =>
               /\ ~cycle'.silence
               /\ ~cycle'.bar
               /\ plugin'.lastBarSamplePos_ = plugin.lastBarSamplePos_
               /\ plugin'.lastActiveNoteSample_ = plugin.lastActiveNoteSample_
      ]_vars

\* C14: every progression sent, whatever its result, carries its own four
\* chords (the k-th carries chords 4k-3 .. 4k), so no chord of a failed send
\* is sent again; and once a send has returned, with either result, the
\* buffer holds only the chords built since, and after the send itself the
\* buffer, the note set and the onsets are empty.
C14_FailedProgressionAbsorbed ==
    plugin.sendBatchProgression_ =>
        /\ \A k \in 1..Len(posted) :
               posted[k].chords =
                   SubSeq(built, barsPerBatch * (k - 1) + 1, barsPerBatch * k)
        /\ RtIdle =>
               /\ plugin.progressionBuffer_ =
                      SubSeq(built, barsPerBatch * Len(posted) + 1, nChords)
               /\ nChords = barsPerBatch * Len(posted) =>
                      /\ plugin.progressionBuffer_ = <<>>
                      /\ plugin.currentChordNotes_ = <<>>
                      /\ plugin.noteOnSamplePos_ = <<>>

\* C14 witness: the first progression failed in transport, and a later
\* flush has sent the second.
C14_Witness ==
    /\ Len(posted) = 2
    /\ posted[1].res = "transport failed"
    /\ RtIdle
    /\ plugin.progressionBuffer_ = <<>>

\* The octave numbers -1 .. 9 in decimal, indexed by pitch \div 12.
OctaveText == <<"-1", "0", "1", "2", "3", "4", "5", "6", "7", "8", "9">>

\* C15: the name a flush emits for a pitch p in 0..127 is the pitch-class
\* name of p % 12 followed by the octave (p / 12) - 1 in decimal; 60 is "C4",
\* 61 is "C#4", 72 is "C5" and 0 is "C-1".
C15_NoteNameMapping ==
    /\ \A i \in 1..Len(cycle.tasks) :
           \A j \in 1..Len(cycle.played) :
               cycle.tasks[i].notes[j] =
                   names[(cycle.played[j] % 12) + 1]
                       \o OctaveText[(cycle.played[j] \div 12) + 1]
    /\ \A t \in RecordsInFlight : Len(t.notes) = 1
    /\ NoteName(60) = "C4"
    /\ NoteName(61) = "C#4"
    /\ NoteName(72) = "C5"
    /\ NoteName(0) = "C-1"

\* C15 witness: pitch 0 was played and the flush named it "C-1".
C15_Witness ==
    /\ cycle.played = <<0>>
    /\ Len(cycle.tasks) = 1
    /\ cycle.tasks[1].notes = <<"C-1">>

\* C16: the cycle whose silence branch ran leaves the silence-start marker
\* cleared, and between two cycles that carry a note event the silence
\* branch runs at most once.
C16_SilenceFlushOnce ==
    /\ cycle.silence => plugin.lastActiveNoteSample_ = 0
    /\ host.silences <= 1

\* C16 witness: the silence branch ran, and the call after it, thirteen
\* quarter notes in with the note set still empty and no note event, did not
\* run it again.
C16_Witness ==
    /\ host.silences = 1
    /\ ~cycle.silence
    /\ host.at = 286650
    /\ plugin.currentChordNotes_ = <<>>
    /\ plugin.lastActiveNoteSample_ = 0

\* C17: the velocity of every chord record built equals the velocity of the
\* most recent note-on event (the default 90 before the first).
C17_VelocityOfLastNoteOn ==
    \A i \in 1..Len(cycle.tasks) :
        cycle.tasks[i].velocity * host.velocity.d = host.velocity.n

\* What the code does instead: the record carries the integer part of the
\* velocity of the most recent note-on.
VelocityTruncated ==
    \A i \in 1..Len(cycle.tasks) :
        cycle.tasks[i].velocity = Trunc(host.velocity.n, host.velocity.d)

\* C18: the bar-boundary branch runs in a cycle exactly when the position is
\* valid, the silence branch did not run and the position is a bar or more
\* past the last flush; it leaves the last-flush position at the current
\* one; with notes held such a cycle builds their record; and under a
\* transport that moves forward two consecutive bar-boundary flushes are a
\* bar or more apart.
C18_BarBoundaryFlush ==
    /\ cycle.bar <=> host.expected
    /\ cycle.bar => plugin.lastBarSamplePos_ = host.pos
    /\ host.due => cycle.bar /\ cycle.tasks # <<>>
    /\ host.gapOk

\* C18 witness: a second bar-boundary flush, with notes held, which built
\* their record.
C18_Witness ==
    /\ cycle.bar
    /\ host.due
    /\ host.second
    /\ cycle.tasks # <<>>

\* C19: the onset list has the length of the note list.
C19_OnsetsParallel ==
    Len(plugin.noteOnSamplePos_) = Len(plugin.currentChordNotes_)

\* C20: the tasks handed to postChord are at every moment the first of the
\* tasks pushed, in the order pushed, and unless shutdown is signalled the
\* k-th task pushed is eventually handed to postChord, for every k.
C20_EveryTaskSent ==
    /\ [](Len(sent) <= Len(pushed) /\ sent = SubSeq(pushed, 1, Len(sent)))
    /\ \A k \in 1..MaxQueued :
           (Len(pushed) >= k) ~> (Len(sent) >= k \/ dtor # "alive")

\* C20 witness: the worker, which had sent the first task and gone to wait
\* on the empty queue, has been woken for the second task, pushed and
\* notified by an enqueueChord that has returned.
C20_Witness ==
    /\ worker.pc = "relock"
    /\ Len(pushed) = 2
    /\ Len(sent) = 1
    /\ RtIdle
    /\ dtor = "alive"

====
